---- MODULE Spec2Model ----
(***************************************************************************)
(* The chat session engine of the ChatWindow component: the WebSocket      *)
(* lifecycle (connect, open, message, error, close, reconnect timer,       *)
(* effect cleanup), the reconciliation of inbound events into the message  *)
(* timeline, the loading flag, and the clarification / filter interaction  *)
(* state with the outbound messages it produces.                           *)
(*                                                                         *)
(* JavaScript objects are records whose DOMAIN is the set of fields that   *)
(* are present: `data.step !== undefined` is `"step" \in DOMAIN data`.     *)
(* An object used as an ordered map (selectedFilters) is a sequence of     *)
(* [key, value] pairs in key insertion order, which is the order           *)
(* Object.entries reports for keys that are not integer-like.              *)
(***************************************************************************)
EXTENDS Integers, Sequences, FiniteSets, TLC

VARIABLES
    messages,                \* useState<Message[]>: the timeline
    input,                   \* useState(''): the free-text input
    connected,               \* useState(false)
    isLoading,               \* useState(false): the Loading Flag
    selectedClarifications,  \* useState<Set<string>>: the Answered-Question Set
    selectedFilters,         \* useState<Record<string, Record<string,string>>>
    wsRef,                   \* useRef<WebSocket>: the socket sendMessage uses
    sock,                    \* readyState of every socket connect() created
    timers,                  \* number of pending setTimeout(connect, 3000)
    sent,                    \* frames handed to WebSocket.send, in order, each with
                             \* the socket's readyState and the control it came from
    received,                \* number of frames ws.onmessage has processed
    now,                     \* Date.now()
    tornDown                 \* the effect cleanup has run

vars == <<messages, input, connected, isLoading, selectedClarifications,
          selectedFilters, wsRef, sock, timers, sent, received, now, tornDown>>

(***************************************************************************)
(* Bounds of the model.                                                    *)
(***************************************************************************)
MaxTimeline == 4
MaxTime == 2
MaxSockets == 2
MaxReceived == 4

SockIds == 1..MaxSockets

(***************************************************************************)
(* Values.                                                                 *)
(***************************************************************************)
\* JavaScript's undefined, where a string is expected.
Undefined == "<undefined>"

\* JavaScript truthiness of a string-or-undefined value.
Truthy(v) == v # Undefined /\ v # ""

\* obj.field, undefined when the field is absent.
Get(obj, f) == IF f \in DOMAIN obj THEN obj[f] ELSE Undefined

\* a === b on two optional fields of the same name.
FieldEq(a, b, f) ==
    IF f \in DOMAIN a THEN f \in DOMAIN b /\ a[f] = b[f] ELSE f \notin DOMAIN b

\* String.prototype.trim on the texts the model types into the input.
Trim(s) ==
    CASE s = " go " -> "go"
      [] s = " " -> ""
      [] OTHER -> s

\* String.prototype.includes on the status texts the model receives.
StrIncludes(s, sub) ==
    CASE sub = "Planning" -> s \in {"Planning...", "Planning completed"}
      [] sub = "completed" -> s \in {"Task completed", "Planning completed"}
      [] OTHER -> FALSE

\* {...data, timestamp: Date.now()}
WithTimestamp(data, t) ==
    [f \in DOMAIN data \cup {"timestamp"} |->
        IF f = "timestamp" THEN t ELSE data[f]]

(***************************************************************************)
(* Ordered maps (plain JavaScript objects with string keys).               *)
(***************************************************************************)
EmptyObj == <<>>

ObjHas(o, k) == \E i \in 1..Len(o) : o[i].key = k

\* o[k], or the given default when the key is absent.
ObjGet(o, k, default) ==
    IF ObjHas(o, k) THEN o[CHOOSE i \in 1..Len(o) : o[i].key = k].value
    ELSE default

\* {...o, [k]: v}: an existing key keeps its place, a new key goes last.
ObjSet(o, k, v) ==
    IF ObjHas(o, k)
    THEN [i \in 1..Len(o) |-> IF o[i].key = k THEN [key |-> k, value |-> v] ELSE o[i]]
    ELSE Append(o, [key |-> k, value |-> v])

(***************************************************************************)
(* Reconciliation of one inbound event into the timeline.                  *)
(***************************************************************************)
\* data.type === 'action_status' && data.step !== undefined
IsKeyed(data) == data.type = "action_status" /\ "step" \in DOMAIN data

\* data.type === 'action_status' && data.action === 'filter'
IsFilterStatus(data) == data.type = "action_status" /\ Get(data, "action") = "filter"

\* The entry is the card of the same step and action.
\* A comparison of cards by action alone.
SameCardByAction(msg, data) ==
    /\ msg.type = "action_status"
    /\ FieldEq(msg, data, "action")

SameCard(msg, data) ==
    /\ msg.type = "action_status"
    /\ FieldEq(msg, data, "step")
    /\ FieldEq(msg, data, "action")

\* A keyed replace that updates the card where it stands.
KeyedReplaceInPlace(prev, data, t) ==
    IF \E i \in 1..Len(prev) : SameCard(prev[i], data)
    THEN [i \in 1..Len(prev) |->
             IF SameCard(prev[i], data) THEN WithTimestamp(data, t) ELSE prev[i]]
    ELSE Append(prev, WithTimestamp(data, t))

\* A keyed replace that removes nothing, as the plain append of the earlier
\* ChatWindow.
KeyedReplaceKeepsAll(prev, data, t) == Append(prev, WithTimestamp(data, t))

\* A keyed replace that treats a card as the same only when its status is the same too.
KeyedReplaceSameStatus(prev, data, t) ==
    LET Keep(msg) == ~(SameCard(msg, data) /\ FieldEq(msg, data, "status"))
    IN  Append(SelectSeq(prev, Keep), WithTimestamp(data, t))

KeyedReplace(prev, data, t) ==
    LET Keep(msg) == ~SameCard(msg, data)
    IN  Append(SelectSeq(prev, Keep), WithTimestamp(data, t))

\* A singleton replace that removes every entry of action "filter", whatever its type.
SingletonReplaceAnyType(prev, data, t) ==
    LET Keep(msg) == ~(Get(msg, "action") = "filter")
    IN  Append(SelectSeq(prev, Keep), WithTimestamp(data, t))

\* A singleton replace that removes nothing.
SingletonReplaceKeepsAll(prev, data, t) == Append(prev, WithTimestamp(data, t))

SingletonReplace(prev, data, t) ==
    LET Keep(msg) == ~(msg.type = "action_status" /\ Get(msg, "action") = "filter")
    IN  Append(SelectSeq(prev, Keep), WithTimestamp(data, t))

AppendEvent(prev, data, t) == Append(prev, WithTimestamp(data, t))

\* A reconciliation that keys every action_status event, a missing step being a
\* step like any other.
ReconcileKeyedAlways(prev, data, t) ==
    IF data.type = "action_status" /\ Get(data, "action") # "filter"
    THEN KeyedReplace(prev, data, t)
    ELSE IF IsKeyed(data) THEN KeyedReplace(prev, data, t)
    ELSE IF IsFilterStatus(data) THEN SingletonReplace(prev, data, t)
    ELSE AppendEvent(prev, data, t)

\* A reconciliation that tries the singleton replace of "filter" before the keyed one.
ReconcileFilterFirst(prev, data, t) ==
    IF IsFilterStatus(data) THEN SingletonReplace(prev, data, t)
    ELSE IF IsKeyed(data) THEN KeyedReplace(prev, data, t)
    ELSE AppendEvent(prev, data, t)

Reconcile(prev, data, t) ==
    IF IsKeyed(data) THEN KeyedReplace(prev, data, t)
    ELSE IF IsFilterStatus(data) THEN SingletonReplace(prev, data, t)
    ELSE AppendEvent(prev, data, t)

(***************************************************************************)
(* The loading rules of one inbound event, in the order the code runs them.*)
(***************************************************************************)
\* Loading rules that read the message of an event of any type.
LoadingAfterAnyType(flag, data) ==
    LET hasMessage == "message" \in DOMAIN data
        l1 == IF hasMessage /\ StrIncludes(data.message, "Planning") THEN TRUE ELSE flag
        l2 == IF hasMessage /\ StrIncludes(data.message, "completed") THEN FALSE ELSE l1
        l3 == IF IsFilterStatus(data) /\ Get(data, "status") = "completed" THEN FALSE ELSE l2
    IN  l3

\* Loading rules that take the completion of any action for the end of the request.
LoadingAfterAnyCompleted(flag, data) ==
    LET isStatus == data.type = "status" /\ "message" \in DOMAIN data
        l1 == IF isStatus /\ StrIncludes(data.message, "Planning") THEN TRUE ELSE flag
        l2 == IF isStatus /\ StrIncludes(data.message, "completed") THEN FALSE ELSE l1
        l3 == IF data.type = "action_status" /\ Get(data, "status") = "completed"
              THEN FALSE ELSE l2
    IN  l3

\* Loading rules that take a completed filter for the end only when it has no step.
LoadingAfterSteplessFilter(flag, data) ==
    LET isStatus == data.type = "status" /\ "message" \in DOMAIN data
        l1 == IF isStatus /\ StrIncludes(data.message, "Planning") THEN TRUE ELSE flag
        l2 == IF isStatus /\ StrIncludes(data.message, "completed") THEN FALSE ELSE l1
        l3 == IF IsFilterStatus(data) /\ ~IsKeyed(data) /\ Get(data, "status") = "completed"
              THEN FALSE ELSE l2
    IN  l3

\* Loading rules with the "Planning" rule evaluated after the "completed" rule.
LoadingAfterPlanningLast(flag, data) ==
    LET isStatus == data.type = "status" /\ "message" \in DOMAIN data
        l1 == IF isStatus /\ StrIncludes(data.message, "completed") THEN FALSE ELSE flag
        l2 == IF isStatus /\ StrIncludes(data.message, "Planning") THEN TRUE ELSE l1
        l3 == IF IsFilterStatus(data) /\ Get(data, "status") = "completed" THEN FALSE ELSE l2
    IN  l3

\* Loading rules that take an error event for the end of the request.
LoadingAfterErrorEnds(flag, data) ==
    LET isStatus == data.type = "status" /\ "message" \in DOMAIN data
        l1 == IF isStatus /\ StrIncludes(data.message, "Planning") THEN TRUE ELSE flag
        l2 == IF isStatus /\ StrIncludes(data.message, "completed") THEN FALSE ELSE l1
        l3 == IF IsFilterStatus(data) /\ Get(data, "status") = "completed" THEN FALSE ELSE l2
        l4 == IF data.type = "error" THEN FALSE ELSE l3
    IN  l4

LoadingAfter(flag, data) ==
    LET isStatus == data.type = "status" /\ "message" \in DOMAIN data
        l1 == IF isStatus /\ StrIncludes(data.message, "Planning") THEN TRUE ELSE flag
        l2 == IF isStatus /\ StrIncludes(data.message, "completed") THEN FALSE ELSE l1
        l3 == IF IsFilterStatus(data) /\ Get(data, "status") = "completed" THEN FALSE ELSE l2
    IN  l3

(***************************************************************************)
(* Identities of the interactive timeline entries.                         *)
(***************************************************************************)
\* A value as a template literal `${v}` prints it.
TemplateStr(v) == IF v = Undefined THEN "undefined" ELSE v

\* `${msg.timestamp}-${msg.question}`
clarificationId(msg) ==
    ToString(msg.timestamp) \o "-" \o TemplateStr(Get(msg, "question"))

\* `${clarificationId}-${optIdx}`
optionId(msg, optIdx) == clarificationId(msg) \o "-" \o ToString(optIdx)

\* `filter-${msg.timestamp}`
filterId(msg) == "filter-" \o ToString(msg.timestamp)

\* msg.clarification_type || msg.context || (msg.field === 'site' ? 'site_selection' : undefined)
clarificationTypeOf(msg) ==
    IF Truthy(Get(msg, "clarification_type")) THEN msg.clarification_type
    ELSE IF Truthy(Get(msg, "context")) THEN msg.context
    ELSE IF Get(msg, "field") = "site" THEN "site_selection"
    ELSE Undefined

\* selectedFilters[filterId] || {}
currentFilters(msg) == ObjGet(selectedFilters, filterId(msg), EmptyObj)

\* Object.values(currentFilters).some(v => v)
hasActiveFilters(msg) ==
    \E i \in 1..Len(currentFilters(msg)) : Truthy(currentFilters(msg)[i].value)

\* Array.prototype.join(' ')
RECURSIVE JoinSpace(_)
JoinSpace(parts) ==
    IF parts = <<>> THEN ""
    ELSE IF Len(parts) = 1 THEN parts[1]
    ELSE parts[1] \o " " \o JoinSpace(Tail(parts))

\* The values of every entry, a deselected field's empty string included.
filterPartsAll(cur) == [i \in 1..Len(cur) |-> cur[i].value]

\* The values Object.entries(currentFilters) yields that are truthy, in its order.
filterParts(cur) ==
    LET Chosen(e) == Truthy(e.value)
        kept == SelectSeq(cur, Chosen)
    IN  [i \in 1..Len(kept) |-> kept[i].value]

\* filterParts.length > 0 ? filterParts.join(' ') : 'skip'
filterString(cur) ==
    IF Len(filterParts(cur)) > 0 THEN JoinSpace(filterParts(cur)) ELSE "skip"

(***************************************************************************)
(* The connection.                                                         *)
(***************************************************************************)
Live(state) == state \in {"connecting", "open"}

FreeSlot(s) == sock[s] \in {"none", "closed"}

\* A close handler that sets the timer twice.
ScheduleReconnectTwice(pending) == pending + 2

\* A close handler that sets no timer.
ScheduleNothing(pending) == pending

\* setTimeout(connect, 3000)
ScheduleReconnect(pending) == pending + 1

\* new WebSocket(...); ...; wsRef.current = ws
connect ==
    /\ \E s \in SockIds : FreeSlot(s)
    /\ LET s == CHOOSE x \in SockIds : FreeSlot(x) /\ \A y \in 1..(x - 1) : ~FreeSlot(y)
       IN  /\ sock' = [sock EXCEPT ![s] = "connecting"]
           /\ wsRef' = s

SystemEntry(text, t) == [type |-> "system", message |-> text, timestamp |-> t]

\* An open handler that forgets the answers given on the previous connection.
ws_onopenResetsAnswers(s) ==
    /\ sock[s] = "connecting"
    /\ sock' = [sock EXCEPT ![s] = "open"]
    /\ connected' = TRUE
    /\ messages' = Append(messages, SystemEntry("Connected to server", now))
    /\ Len(messages') <= MaxTimeline
    /\ selectedClarifications' = {}
    /\ UNCHANGED <<input, isLoading, selectedFilters,
                   wsRef, timers, sent, received, now, tornDown>>

ws_onopen(s) ==
    /\ sock[s] = "connecting"
    /\ sock' = [sock EXCEPT ![s] = "open"]
    /\ connected' = TRUE
    /\ messages' = Append(messages, SystemEntry("Connected to server", now))
    /\ Len(messages') <= MaxTimeline
    /\ UNCHANGED <<input, isLoading, selectedClarifications, selectedFilters,
                   wsRef, timers, sent, received, now, tornDown>>

ws_onmessage(s, data) ==
    /\ sock[s] = "open"
    /\ received < MaxReceived
    /\ received' = received + 1
    /\ isLoading' = LoadingAfter(isLoading, data)
    /\ messages' = Reconcile(messages, data, now)
    /\ Len(messages') <= MaxTimeline
    /\ UNCHANGED <<input, connected, selectedClarifications, selectedFilters,
                   wsRef, sock, timers, sent, now, tornDown>>

(***************************************************************************)
(* The text frames the handler receives, and JSON.parse on them.           *)
(***************************************************************************)
PlanningFrame == "{\"type\":\"status\",\"message\":\"Planning...\"}"
HeartbeatFrame == "{\"type\":\"heartbeat\"}"
ProceedFrame ==
    "{\"type\":\"clarification\",\"question\":\"Proceed?\",\"options\":[{\"value\":\"yes\",\"label\":\"Yes\"},{\"value\":\"no\",\"label\":\"No\"}],\"clarification_type\":\"confirm\"}"
NullFrame == "null"

\* Frames that are no JSON text: cut short, empty, plain words.
BrokenFrames == {"{\"type\":\"status\",\"message\":\"Plann", "", "Task completed"}

ObjectFrames == {PlanningFrame, HeartbeatFrame, ProceedFrame}

\* JSON.parse throws SyntaxError on the text.
ParseThrows(text) == text \notin ObjectFrames \cup {NullFrame}

\* JSON.parse(text) of a frame that holds an object.
JSONparse(text) ==
    CASE text = PlanningFrame -> [type |-> "status", message |-> "Planning..."]
      [] text = HeartbeatFrame -> [type |-> "heartbeat"]
      [] text = ProceedFrame ->
            [type |-> "clarification", question |-> "Proceed?",
             options |-> <<[value |-> "yes", label |-> "Yes"],
                           [value |-> "no", label |-> "No"]>>,
             clarification_type |-> "confirm"]

\* A handler that reports a frame it cannot parse as an error entry.
ws_onmessageFrameReportsError(s, text) ==
    /\ sock[s] = "open"
    /\ received < MaxReceived
    /\ IF text \in ObjectFrames
       THEN ws_onmessage(s, JSONparse(text))
       ELSE /\ received' = received + 1
            /\ messages' = Append(messages,
                    [type |-> "error", message |-> text, timestamp |-> now])
            /\ Len(messages') <= MaxTimeline
            /\ UNCHANGED <<input, connected, isLoading, selectedClarifications,
                           selectedFilters, wsRef, sock, timers, sent, now, tornDown>>

\* ws.onmessage on the text of a frame.  JSON.parse is not guarded: when it
\* throws, and when it yields null so that data.type throws, the handler ends
\* before it sets any state.
ws_onmessageFrame(s, text) ==
    /\ sock[s] = "open"
    /\ received < MaxReceived
    /\ IF text \in ObjectFrames
       THEN ws_onmessage(s, JSONparse(text))
       ELSE /\ received' = received + 1
            /\ UNCHANGED <<messages, input, connected, isLoading, selectedClarifications,
                           selectedFilters, wsRef, sock, timers, sent, now, tornDown>>

\* An error handler that leaves the Loading Flag alone.
ws_onerrorKeepsLoading(s) ==
    /\ sock[s] \in {"connecting", "open", "closing"}
    /\ sock' = [sock EXCEPT ![s] = "errored"]
    /\ connected' = FALSE
    /\ UNCHANGED <<messages, input, isLoading, selectedClarifications, selectedFilters,
                   wsRef, timers, sent, received, now, tornDown>>

\* An error handler that schedules a reconnect of its own.
ws_onerrorSchedulesReconnect(s) ==
    /\ sock[s] \in {"connecting", "open", "closing"}
    /\ sock' = [sock EXCEPT ![s] = "errored"]
    /\ connected' = FALSE
    /\ isLoading' = FALSE
    /\ timers' = ScheduleReconnect(timers)
    /\ UNCHANGED <<messages, input, selectedClarifications, selectedFilters,
                   wsRef, sent, received, now, tornDown>>

\* The connection failed (or was closed before it was established): the error
\* event, which the close event follows.
ws_onerror(s) ==
    /\ sock[s] \in {"connecting", "open", "closing"}
    /\ sock' = [sock EXCEPT ![s] = "errored"]
    /\ connected' = FALSE
    /\ isLoading' = FALSE
    /\ UNCHANGED <<messages, input, selectedClarifications, selectedFilters,
                   wsRef, timers, sent, received, now, tornDown>>

\* A close handler that reports the disconnect only when the connection was up.
ws_oncloseOnlyAfterOpen(s) ==
    /\ sock[s] \in {"connecting", "open", "closing", "errored"}
    /\ sock' = [sock EXCEPT ![s] = "closed"]
    /\ connected' = FALSE
    /\ isLoading' = FALSE
    /\ messages' = IF connected
                   THEN Append(messages,
                               SystemEntry("Disconnected from server. Reconnecting...", now))
                   ELSE messages
    /\ Len(messages') <= MaxTimeline
    /\ timers' = ScheduleReconnect(timers)
    /\ UNCHANGED <<input, selectedClarifications, selectedFilters,
                   wsRef, sent, received, now, tornDown>>

\* A close handler that starts the timeline afresh.
ws_oncloseClearsTimeline(s) ==
    /\ sock[s] \in {"connecting", "open", "closing", "errored"}
    /\ sock' = [sock EXCEPT ![s] = "closed"]
    /\ connected' = FALSE
    /\ isLoading' = FALSE
    /\ messages' = <<SystemEntry("Disconnected from server. Reconnecting...", now)>>
    /\ timers' = ScheduleReconnect(timers)
    /\ UNCHANGED <<input, selectedClarifications, selectedFilters,
                   wsRef, sent, received, now, tornDown>>

\* A close handler that leaves the loading flag alone.
ws_oncloseKeepsLoading(s) ==
    /\ sock[s] \in {"connecting", "open", "closing", "errored"}
    /\ sock' = [sock EXCEPT ![s] = "closed"]
    /\ connected' = FALSE
    /\ messages' = Append(messages,
                          SystemEntry("Disconnected from server. Reconnecting...", now))
    /\ Len(messages') <= MaxTimeline
    /\ timers' = ScheduleReconnect(timers)
    /\ UNCHANGED <<input, isLoading, selectedClarifications, selectedFilters,
                   wsRef, sent, received, now, tornDown>>

ws_onclose(s) ==
    /\ sock[s] \in {"connecting", "open", "closing", "errored"}
    /\ sock' = [sock EXCEPT ![s] = "closed"]
    /\ connected' = FALSE
    /\ isLoading' = FALSE
    /\ messages' = Append(messages,
                          SystemEntry("Disconnected from server. Reconnecting...", now))
    /\ Len(messages') <= MaxTimeline
    /\ timers' = ScheduleReconnect(timers)
    /\ UNCHANGED <<input, selectedClarifications, selectedFilters,
                   wsRef, sent, received, now, tornDown>>

\* A timer that stays pending after it has called connect() (an interval).
ReconnectTimerKeepsTimer ==
    /\ timers > 0
    /\ timers' = timers
    /\ connect
    /\ UNCHANGED <<messages, input, connected, isLoading, selectedClarifications,
                   selectedFilters, sent, received, now, tornDown>>

\* A reconnect timer elapses and calls connect().
ReconnectTimer ==
    /\ timers > 0
    /\ timers' = timers - 1
    /\ connect
    /\ UNCHANGED <<messages, input, connected, isLoading, selectedClarifications,
                   selectedFilters, sent, received, now, tornDown>>

\* The effect cleanup: if (wsRef.current) wsRef.current.close()
Teardown ==
    /\ ~tornDown
    /\ tornDown' = TRUE
    /\ sock' = IF Live(sock[wsRef]) THEN [sock EXCEPT ![wsRef] = "closing"] ELSE sock
    /\ UNCHANGED <<messages, input, connected, isLoading, selectedClarifications,
                   selectedFilters, wsRef, timers, sent, received, now>>

\* The development build runs the mount effect twice (React Strict Mode): right
\* after the first connect() the cleanup closes wsRef.current and the effect
\* runs connect() again, with the component's state and refs kept.
Remount ==
    /\ ~tornDown
    /\ wsRef = 1
    /\ sock = [s \in SockIds |-> IF s = 1 THEN "connecting" ELSE "none"]
    /\ messages = <<>>
    /\ timers = 0
    /\ LET cleaned == IF Live(sock[wsRef]) THEN [sock EXCEPT ![wsRef] = "closing"] ELSE sock
           free(x) == cleaned[x] \in {"none", "closed"}
           s == CHOOSE x \in SockIds : free(x) /\ \A y \in 1..(x - 1) : ~free(y)
       IN  /\ sock' = [cleaned EXCEPT ![s] = "connecting"]
           /\ wsRef' = s
    /\ UNCHANGED <<messages, input, connected, isLoading, selectedClarifications,
                   selectedFilters, timers, sent, received, now, tornDown>>

(***************************************************************************)
(* Outbound messages.                                                      *)
(***************************************************************************)
Payload(text, clarificationValue, clarificationType) ==
    IF ~Truthy(clarificationValue) THEN [instruction |-> text]
    ELSE IF ~Truthy(clarificationType)
    THEN [instruction |-> text, is_clarification |-> TRUE,
          value |-> clarificationValue]
    ELSE [instruction |-> text, is_clarification |-> TRUE,
          value |-> clarificationValue, clarification_type |-> clarificationType]

\* clarificationValue || input.trim()
messageToSend(clarificationValue) ==
    IF Truthy(clarificationValue) THEN clarificationValue ELSE Trim(input)

\* messageToSend && wsRef.current && connected
\* A guard of sendMessage that does not look at connected.
sendGuardIgnoresConnected(clarificationValue) ==
    Truthy(messageToSend(clarificationValue)) /\ wsRef \in SockIds

sendGuard(clarificationValue) ==
    Truthy(messageToSend(clarificationValue)) /\ wsRef \in SockIds /\ connected

\* A sendMessage that shows the user entry before it looks at the connection.
sendMessageEchoesUnsent(clarificationValue, clarificationType, origin) ==
    IF sendGuard(clarificationValue) /\ sock[wsRef] # "connecting"
    THEN /\ sent' = Append(sent,
                [payload |-> Payload(messageToSend(clarificationValue),
                                     clarificationValue, clarificationType),
                 readyState |-> sock[wsRef], origin |-> origin])
         /\ messages' = Append(messages,
                [type |-> "user", message |-> messageToSend(clarificationValue),
                 timestamp |-> now])
         /\ Len(messages') <= MaxTimeline
         /\ input' = ""
         /\ isLoading' = TRUE
    ELSE IF Truthy(messageToSend(clarificationValue))
    THEN /\ messages' = Append(messages,
                [type |-> "user", message |-> messageToSend(clarificationValue),
                 timestamp |-> now])
         /\ Len(messages') <= MaxTimeline
         /\ UNCHANGED <<sent, input, isLoading>>
    ELSE UNCHANGED <<sent, messages, input, isLoading>>

\* A sendMessage that raises the Loading Flag for free text only.
sendMessageLoadingForTextOnly(clarificationValue, clarificationType, origin) ==
    IF sendGuard(clarificationValue) /\ sock[wsRef] # "connecting"
    THEN /\ sent' = Append(sent,
                [payload |-> Payload(messageToSend(clarificationValue),
                                     clarificationValue, clarificationType),
                 readyState |-> sock[wsRef], origin |-> origin])
         /\ messages' = Append(messages,
                [type |-> "user", message |-> messageToSend(clarificationValue),
                 timestamp |-> now])
         /\ Len(messages') <= MaxTimeline
         /\ input' = ""
         /\ isLoading' = IF Truthy(clarificationValue) THEN isLoading ELSE TRUE
    ELSE UNCHANGED <<sent, messages, input, isLoading>>

\* WebSocket.send throws InvalidStateError on a socket that is still connecting,
\* which ends the handler before it changes any state.
sendMessage(clarificationValue, clarificationType, origin) ==
    IF sendGuard(clarificationValue) /\ sock[wsRef] # "connecting"
    THEN /\ sent' = Append(sent,
                [payload |-> Payload(messageToSend(clarificationValue),
                                     clarificationValue, clarificationType),
                 readyState |-> sock[wsRef], origin |-> origin])
         /\ messages' = Append(messages,
                [type |-> "user", message |-> messageToSend(clarificationValue),
                 timestamp |-> now])
         /\ Len(messages') <= MaxTimeline
         /\ input' = ""
         /\ isLoading' = TRUE
    ELSE UNCHANGED <<sent, messages, input, isLoading>>

(***************************************************************************)
(* User actions.  The component is on screen until the cleanup runs.       *)
(***************************************************************************)
\* The texts typed into the input, and the example query buttons.
TypedTexts == {" go ", " "}
exampleQueries ==
    {"Find MacBook Air under ₹1,00,000",
     "Find top pizza places in Indiranagar",
     "Compare laptops on Flipkart and Amazon",
     "Search for best restaurants near me"}

\* onChange of the input (disabled={!connected || isLoading}), or an example
\* query button (rendered while messages.length === 0).
SetInput(v) ==
    /\ ~tornDown
    /\ \/ v \in TypedTexts /\ connected /\ ~isLoading
       \/ v \in exampleQueries /\ messages = <<>>
    /\ input' = v
    /\ UNCHANGED <<messages, connected, isLoading, selectedClarifications,
                   selectedFilters, wsRef, sock, timers, sent, received, now, tornDown>>

\* Enter in the input (disabled={!connected || isLoading}) or the Send button.
SendText ==
    /\ ~tornDown
    /\ connected /\ ~isLoading
    /\ sendMessage(Undefined, Undefined, "input")
    /\ UNCHANGED <<connected, selectedClarifications, selectedFilters,
                   wsRef, sock, timers, received, now, tornDown>>

\* A guard that looks at the clicked option only.
onlyOptionSelected(msg, optIdx) == optionId(msg, optIdx) \in selectedClarifications

\* if (isFrozen || isSelected) return
alreadyAnswered(msg, optIdx) ==
    \/ clarificationId(msg) \in selectedClarifications
    \/ optionId(msg, optIdx) \in selectedClarifications

\* A click that starts the answered set afresh instead of copying the previous one.
selectClarificationOptionFreshSet(i, optIdx) ==
    /\ ~tornDown
    /\ i \in 1..Len(messages)
    /\ messages[i].type = "clarification"
    /\ "options" \in DOMAIN messages[i]
    /\ optIdx \in 0..(Len(messages[i].options) - 1)
    /\ LET msg == messages[i]
       IN  IF alreadyAnswered(msg, optIdx)
           THEN UNCHANGED <<messages, input, isLoading, selectedClarifications, sent>>
           ELSE /\ selectedClarifications' = {clarificationId(msg), optionId(msg, optIdx)}
                /\ sendMessage(msg.options[optIdx + 1].value, clarificationTypeOf(msg),
                               clarificationId(msg))
    /\ UNCHANGED <<connected, selectedFilters, wsRef, sock, timers, received, now, tornDown>>

\* onClick of option optIdx of the clarification entry at position i.
selectClarificationOption(i, optIdx) ==
    /\ ~tornDown
    /\ i \in 1..Len(messages)
    /\ messages[i].type = "clarification"
    /\ "options" \in DOMAIN messages[i]
    /\ optIdx \in 0..(Len(messages[i].options) - 1)
    /\ LET msg == messages[i]
       IN  IF alreadyAnswered(msg, optIdx)
           THEN UNCHANGED <<messages, input, isLoading, selectedClarifications, sent>>
           ELSE /\ selectedClarifications' = selectedClarifications \cup
                        {clarificationId(msg), optionId(msg, optIdx)}
                /\ sendMessage(msg.options[optIdx + 1].value, clarificationTypeOf(msg),
                               clarificationId(msg))
    /\ UNCHANGED <<connected, selectedFilters, wsRef, sock, timers, received, now, tornDown>>

\* onClick of option o of field f of the filter panel at position i.
\* A toggle that writes the field into an empty selection instead of the panel's.
toggleFilterOptionDropsFields(i, f, o) ==
    /\ ~tornDown
    /\ i \in 1..Len(messages)
    /\ messages[i].type = "filter_options"
    /\ "filters" \in DOMAIN messages[i]
    /\ f \in 1..Len(messages[i].filters)
    /\ o \in 1..Len(messages[i].filters[f].options)
    /\ LET msg == messages[i]
           field == msg.filters[f].field
           option == msg.filters[f].options[o]
           isOptionSelected == ObjGet(currentFilters(msg), field, Undefined) = option
       IN  selectedFilters' = ObjSet(selectedFilters, filterId(msg),
                ObjSet(EmptyObj, field, IF isOptionSelected THEN "" ELSE option))
    /\ UNCHANGED <<messages, input, connected, isLoading, selectedClarifications,
                   wsRef, sock, timers, sent, received, now, tornDown>>

\* A toggle that freezes the panel once it has been submitted, as a clarification
\* freezes once answered.
toggleFilterOptionFrozenAfterSubmit(i, f, o) ==
    /\ ~tornDown
    /\ i \in 1..Len(messages)
    /\ messages[i].type = "filter_options"
    /\ "filters" \in DOMAIN messages[i]
    /\ f \in 1..Len(messages[i].filters)
    /\ o \in 1..Len(messages[i].filters[f].options)
    /\ LET msg == messages[i]
           field == msg.filters[f].field
           option == msg.filters[f].options[o]
           isOptionSelected == ObjGet(currentFilters(msg), field, Undefined) = option
           panel == ObjGet(selectedFilters, filterId(msg), EmptyObj)
           isFrozen == \E k \in 1..Len(sent) : sent[k].origin = filterId(msg)
       IN  selectedFilters' =
               IF isFrozen THEN selectedFilters
               ELSE ObjSet(selectedFilters, filterId(msg),
                           ObjSet(panel, field, IF isOptionSelected THEN "" ELSE option))
    /\ UNCHANGED <<messages, input, connected, isLoading, selectedClarifications,
                   wsRef, sock, timers, sent, received, now, tornDown>>

toggleFilterOption(i, f, o) ==
    /\ ~tornDown
    /\ i \in 1..Len(messages)
    /\ messages[i].type = "filter_options"
    /\ "filters" \in DOMAIN messages[i]
    /\ f \in 1..Len(messages[i].filters)
    /\ o \in 1..Len(messages[i].filters[f].options)
    /\ LET msg == messages[i]
           field == msg.filters[f].field
           option == msg.filters[f].options[o]
           isOptionSelected == ObjGet(currentFilters(msg), field, Undefined) = option
           panel == ObjGet(selectedFilters, filterId(msg), EmptyObj)
       IN  selectedFilters' = ObjSet(selectedFilters, filterId(msg),
                ObjSet(panel, field, IF isOptionSelected THEN "" ELSE option))
    /\ UNCHANGED <<messages, input, connected, isLoading, selectedClarifications,
                   wsRef, sock, timers, sent, received, now, tornDown>>

\* A Clear All that empties the selections of every panel.
clearFiltersOfEveryPanel(i) ==
    /\ ~tornDown
    /\ i \in 1..Len(messages)
    /\ messages[i].type = "filter_options"
    /\ hasActiveFilters(messages[i])
    /\ selectedFilters' = EmptyObj
    /\ UNCHANGED <<messages, input, connected, isLoading, selectedClarifications,
                   wsRef, sock, timers, sent, received, now, tornDown>>

\* onClick of Clear All, which is rendered while hasActiveFilters.
clearFilters(i) ==
    /\ ~tornDown
    /\ i \in 1..Len(messages)
    /\ messages[i].type = "filter_options"
    /\ hasActiveFilters(messages[i])
    /\ selectedFilters' = ObjSet(selectedFilters, filterId(messages[i]), EmptyObj)
    /\ UNCHANGED <<messages, input, connected, isLoading, selectedClarifications,
                   wsRef, sock, timers, sent, received, now, tornDown>>

\* onClick of Apply Filters / Skip.
submitFilters(i) ==
    /\ ~tornDown
    /\ i \in 1..Len(messages)
    /\ messages[i].type = "filter_options"
    /\ sendMessage(filterString(currentFilters(messages[i])), "product_filter_refinement",
                   filterId(messages[i]))
    /\ UNCHANGED <<connected, selectedClarifications, selectedFilters,
                   wsRef, sock, timers, received, now, tornDown>>

\* Time passes.
Tick ==
    /\ now < MaxTime
    /\ now' = now + 1
    /\ UNCHANGED <<messages, input, connected, isLoading, selectedClarifications,
                   selectedFilters, wsRef, sock, timers, sent, received, tornDown>>

(***************************************************************************)
(* The events the backend sends.                                           *)
(***************************************************************************)
\* The types the timeline renders.
KnownTypes ==
    {"user", "action_status", "plan", "error", "status", "system", "clarification",
     "blocked", "filter_options"}

\* The element the timeline renders for an entry: one branch per known type in
\* the order of the code, and null for every other type.
RenderEntry(msg) ==
    IF msg.type = "user" THEN "user bubble"
    ELSE IF msg.type = "action_status" THEN "ActionCard"
    ELSE IF msg.type = "plan" THEN "plan card"
    ELSE IF msg.type = "error" THEN "error card"
    ELSE IF msg.type = "status" THEN "status line"
    ELSE IF msg.type = "system" THEN "system line"
    ELSE IF msg.type = "clarification" THEN "clarification card"
    ELSE IF msg.type = "blocked" THEN "blocked card"
    ELSE IF msg.type = "filter_options" THEN "filter panel"
    ELSE "null"

StatusEvents ==
    {[type |-> "status", message |-> m] : m \in {"Planning...", "Task completed"}}

StepEvents ==
    {[type |-> "action_status", action |-> a, status |-> st, step |-> n] :
        a \in {"click", "filter"}, st \in {"executing", "completed"}, n \in {1, 2}}

SteplessEvents ==
    {[type |-> "action_status", action |-> a, status |-> st] :
        a \in {"click", "filter"}, st \in {"executing", "completed"}}

ClarificationEvents ==
    {[type |-> "clarification", question |-> "Which site?",
      options |-> <<[value |-> "amazon", label |-> "Amazon"],
                    [value |-> "", label |-> "Any"]>>,
      field |-> "site"],
     [type |-> "clarification", question |-> "Proceed?",
      options |-> <<[value |-> "yes", label |-> "Yes"],
                    [value |-> "no", label |-> "No"]>>,
      clarification_type |-> "confirm"]}

FilterOptionsEvents ==
    {[type |-> "filter_options",
      filters |-> <<[field |-> "size", label |-> "Size", options |-> <<"M", "L">>,
                     type |-> "select"],
                    [field |-> "color", label |-> "Color", options |-> <<"red">>,
                     type |-> "select"]>>]}

OtherEvents ==
    {[type |-> "error", message |-> "failed"], [type |-> "heartbeat"]}

(***************************************************************************)
(* The session.                                                            *)
(***************************************************************************)
\* The state after the first render and the mount effect, which calls connect().
Init ==
    /\ messages = <<>>
    /\ input = ""
    /\ connected = FALSE
    /\ isLoading = FALSE
    /\ selectedClarifications = {}
    /\ selectedFilters = EmptyObj
    /\ wsRef = 1
    /\ sock = [s \in SockIds |-> IF s = 1 THEN "connecting" ELSE "none"]
    /\ timers = 0
    /\ sent = <<>>
    /\ received = 0
    /\ now = 1
    /\ tornDown = FALSE

Open == \E s \in SockIds : ws_onopen(s)
Error == \E s \in SockIds : ws_onerror(s)
Close == \E s \in SockIds : ws_onclose(s)

Lifecycle == Open \/ Error \/ Close \/ ReconnectTimer \/ Teardown \/ Tick

Typing == (\E v \in TypedTexts \cup exampleQueries : SetInput(v)) \/ SendText

ClickOption == \E i \in 1..MaxTimeline, k \in 0..1 : selectClarificationOption(i, k)
ToggleFilter == \E i \in 1..MaxTimeline, f \in 1..2, o \in 1..2 : toggleFilterOption(i, f, o)
ClearFilters == \E i \in 1..MaxTimeline : clearFilters(i)
SubmitFilters == \E i \in 1..MaxTimeline : submitFilters(i)

Receive(feed) == \E s \in SockIds, data \in feed : ws_onmessage(s, data)

(***************************************************************************)
(* Specifications.  They start from the same state and differ in the       *)
(* events the backend sends and in the user actions taken.                 *)
(***************************************************************************)
FilterCompleted == [type |-> "action_status", action |-> "filter", status |-> "completed"]

\* An inbound event of type 'user': the Message interface has type: string and
\* the handler appends whatever type the backend sends.
UserEvents == {[type |-> "user", message |-> "go"]}

\* The session: connection, loading flag, free text, clarifications, filter submission.
SessionFeed ==
    StatusEvents \cup ClarificationEvents \cup FilterOptionsEvents \cup {FilterCompleted}
        \cup UserEvents

Next ==
    \/ Lifecycle
    \/ Typing
    \/ ClickOption
    \/ SubmitFilters
    \/ Receive(SessionFeed)

Spec == Init /\ [][Next]_vars

\* The reconciliation of progress cards.
ReconcileFeed == StepEvents \cup SteplessEvents \cup {[type |-> "status", message |-> "Planning..."]}

NextReconcile ==
    \/ Open
    \/ Error
    \/ Close
    \/ ReconnectTimer
    \/ Receive(ReconcileFeed)

SpecReconcile == Init /\ [][NextReconcile]_vars

\* The replay of cards as time passes.
ReplayFeed ==
    {e \in StepEvents : e.step = 1 /\ (e.action = "click" \/ e.status = "completed")}
        \cup {e \in SteplessEvents : e.action = "filter"}
        \cup {[type |-> "status", message |-> "Planning..."]}

NextReplay ==
    \/ Tick
    \/ Open
    \/ Close
    \/ ReconnectTimer
    \/ Receive(ReplayFeed)

SpecReplay == Init /\ [][NextReplay]_vars

\* Frames as they arrive, well formed or not.
FrameFeed == ObjectFrames \cup {NullFrame} \cup BrokenFrames

ReceiveFrame == \E s \in SockIds, text \in FrameFeed : ws_onmessageFrame(s, text)

NextFrames ==
    \/ Open
    \/ Close
    \/ ReconnectTimer
    \/ ClickOption
    \/ ReceiveFrame

SpecFrames == Init /\ [][NextFrames]_vars

\* Informational events amid a request in flight.
InformationalEvents ==
    {e \in OtherEvents : e.type = "error"}
        \cup {[type |-> "blocked", message |-> "Blocked by captcha", block_type |-> "captcha"],
              [type |-> "plan", message |-> "Task completed"]}
        \cup {q \in ClarificationEvents : q.question = "Proceed?"}
        \cup FilterOptionsEvents

InformationalFeed == StatusEvents \cup InformationalEvents

NextInformational ==
    \/ Open
    \/ Error
    \/ Close
    \/ ReconnectTimer
    \/ Receive(InformationalFeed)

SpecInformational == Init /\ [][NextInformational]_vars

\* The mount effect run twice, then the connection's life and free text.
NextRemount ==
    \/ Remount
    \/ Open
    \/ Error
    \/ Close
    \/ ReconnectTimer
    \/ Typing
    \/ Receive(StatusEvents)

SpecRemount == Init /\ [][NextRemount]_vars

\* The filter panels.
NextFilters ==
    \/ Open
    \/ Close
    \/ ReconnectTimer
    \/ Tick
    \/ ToggleFilter
    \/ ClearFilters
    \/ SubmitFilters
    \/ Receive(FilterOptionsEvents)

SpecFilters == Init /\ [][NextFilters]_vars

\* The connection alone, with the reconnect timer firing eventually, as a timer
\* set by setTimeout does.
NextConnection ==
    \/ Open
    \/ Error
    \/ Close
    \/ ReconnectTimer
    \/ Teardown
    \/ Typing
    \/ Receive(StatusEvents)

FairSpec == Init /\ [][NextConnection]_vars /\ WF_vars(ReconnectTimer)

\* The timeline and the loading flag under every kind of inbound event.
MoreStatusEvents ==
    {[type |-> "status", message |-> m] : m \in {"Planning completed", "Working"}}

CardEvents ==
    {FilterCompleted,
     [type |-> "action_status", action |-> "filter", status |-> "executing"],
     [type |-> "action_status", action |-> "click", status |-> "completed", step |-> 1]}

TimelineFeed ==
    StatusEvents \cup MoreStatusEvents \cup OtherEvents \cup CardEvents
        \cup {[type |-> "error", message |-> "failed", action |-> "filter"]}

NextTimeline ==
    \/ Open
    \/ Error
    \/ Close
    \/ ReconnectTimer
    \/ Typing
    \/ Receive(TimelineFeed)

SpecTimeline == Init /\ [][NextTimeline]_vars

\* Events of a type the client does not know, amid loading, answered questions
\* and filter selections.
UnknownEvents ==
    {e \in OtherEvents : e.type = "heartbeat"}
        \cup {[type |-> "note", message |-> "Task completed"]}

UnknownFeed ==
    UnknownEvents
        \cup {[type |-> "status", message |-> "Planning..."]}
        \cup {q \in ClarificationEvents : q.question = "Proceed?"}
        \cup FilterOptionsEvents

NextUnknown ==
    \/ Open
    \/ Close
    \/ ReconnectTimer
    \/ ClickOption
    \/ ToggleFilter
    \/ Receive(UnknownFeed)

SpecUnknown == Init /\ [][NextUnknown]_vars

(***************************************************************************)
(* Properties of the reconciliation (SpecReconcile).                       *)
(***************************************************************************)
IsStatusCard(msg) == msg.type = "action_status"
IsFilterCard(msg) == msg.type = "action_status" /\ Get(msg, "action") = "filter"

\* The positions of the timeline m that hold the card of data's (step, action).
CardsOf(m, data) == {i \in 1..Len(m) : SameCard(m[i], data)}

\* No two entries of m are cards of the same defined step and the same action.
KeyedCardsUnique(m) ==
    \A i, j \in 1..Len(m) :
        (IsStatusCard(m[i]) /\ "step" \in DOMAIN m[i] /\ SameCard(m[j], m[i])) => i = j

\* C1: for every (step, action) with a defined step the timeline holds at most one
\* action_status entry, and the step that processes an action_status event with a
\* defined step leaves exactly one entry of its (step, action), with that event's
\* status.
C1_KeyedCardUnique ==
    /\ KeyedCardsUnique(messages)
    /\ [][/\ KeyedCardsUnique(messages')
          /\ \A s \in SockIds, data \in ReconcileFeed :
                (IsKeyed(data) /\ ws_onmessage(s, data)) =>
                    /\ Cardinality(CardsOf(messages', data)) = 1
                    /\ \A i \in CardsOf(messages', data) :
                          messages'[i].status = data.status]_vars

\* A card of step 1 was received "executing" and then "completed": three events
\* were processed and two entries (after the system entry) remain.
C1_Witness ==
    /\ received = 3
    /\ Len(messages) = 3
    /\ \E i \in 1..Len(messages) :
          /\ IsStatusCard(messages[i])
          /\ "step" \in DOMAIN messages[i]
          /\ messages[i].step = 1
          /\ messages[i].status = "completed"
    /\ \E i \in 1..Len(messages) : messages[i].type = "status"

FilterCards(m) == {i \in 1..Len(m) : IsFilterCard(m[i])}
SteplessFilterCards(m) == {i \in FilterCards(m) : "step" \notin DOMAIN m[i]}

\* C2 as stated: the timeline never holds two action_status entries whose action
\* is "filter", whether or not the events carried a step.
C2_AtMostOneFilterCard == Cardinality(FilterCards(messages)) <= 1

\* C2 as amended: the timeline never holds two filter entries without a step, and
\* the step that processes a filter event without a step leaves it as the only
\* filter entry; filter events with a step are keyed by their step.
C2_AtMostOneSteplessFilterCard ==
    /\ Cardinality(SteplessFilterCards(messages)) <= 1
    /\ [][/\ Cardinality(SteplessFilterCards(messages')) <= 1
          /\ \A s \in SockIds, data \in ReconcileFeed :
                (IsFilterStatus(data) /\ ~IsKeyed(data) /\ ws_onmessage(s, data)) =>
                    FilterCards(messages') = {Len(messages')}]_vars

\* Filter events were received three times, the last without a step, and one
\* filter entry is left.
C2_Witness ==
    /\ received = 3
    /\ Len(messages) = 2
    /\ IsFilterCard(messages[2])
    /\ "step" \notin DOMAIN messages[2]

(***************************************************************************)
(* Properties of the session (Spec).                                       *)
(***************************************************************************)
Last(q) == q[Len(q)]

\* The frames sent from the control of the given identity.
SentFrom(origin) == {k \in 1..Len(sent) : sent[k].origin = origin}

Clarifications == {i \in 1..Len(messages) : messages[i].type = "clarification"}

\* C3: for each clarification entry at most one outbound message is ever sent,
\* whichever options are clicked and however often.
C3_AtMostOneAnswer ==
    \A i \in Clarifications : Cardinality(SentFrom(clarificationId(messages[i]))) <= 1

\* A question has been answered: it is frozen and its one answer was sent.
C3_Witness ==
    \E i \in Clarifications :
        /\ clarificationId(messages[i]) \in selectedClarifications
        /\ Cardinality(SentFrom(clarificationId(messages[i]))) = 1
        /\ Len(messages[i].options) = 2

\* C4: the Loading Flag is true only while connected is true.
C4_LoadingOnlyWhileConnected == isLoading => connected

IsDisconnectEntry(msg) ==
    msg.type = "system" /\ msg.message = "Disconnected from server. Reconnecting..."

\* A send raised the flag and the close that followed forced it down.
C4_Witness ==
    /\ Len(messages) >= 2
    /\ IsDisconnectEntry(Last(messages))
    /\ messages[Len(messages) - 1].type = "user"
    /\ ~isLoading
    /\ ~connected

Disconnects == {i \in 1..Len(messages) : IsDisconnectEntry(messages[i])}

\* C5: at most one reconnect timer is outstanding at every moment, also when
\* close fires twice in succession before the timer elapses.
C5_AtMostOneTimer == timers <= 1

\* C6: once the cleanup has run no reconnect timer is pending, the active socket
\* is not live, and no socket is created any more.
C6_TeardownEndsReconnect ==
    [][/\ tornDown' => (timers' = 0 /\ ~Live(sock'[wsRef']))
       /\ tornDown => \A s \in SockIds : sock'[s] = "connecting" => sock[s] = "connecting"]_vars

\* C8: a click on an option of a question that is not marked marks the question
\* and the option and sends exactly one message {instruction: value,
\* is_clarification: true, value, clarification_type}; a click on a marked one
\* changes nothing.
C8_SelectMarksAndSends ==
    [][\A i \in 1..MaxTimeline, k \in 0..1 :
          selectClarificationOption(i, k) =>
              IF alreadyAnswered(messages[i], k)
              THEN UNCHANGED vars
              ELSE /\ selectedClarifications' = selectedClarifications \cup
                          {clarificationId(messages[i]), optionId(messages[i], k)}
                   /\ Len(sent') = Len(sent) + 1
                   /\ Last(sent').payload =
                          [instruction |-> messages[i].options[k + 1].value,
                           is_clarification |-> TRUE,
                           value |-> messages[i].options[k + 1].value,
                           clarification_type |-> clarificationTypeOf(messages[i])]]_vars

LiveSockets == {s \in SockIds : Live(sock[s])}

\* C9: at most one socket is connecting or open.
C9_AtMostOneLiveSocket == Cardinality(LiveSockets) <= 1

\* After a disconnect the timer has elapsed and the one new socket is live.
C9_Witness == Disconnects # {} /\ timers = 0 /\ Cardinality(LiveSockets) = 1

(***************************************************************************)
(* Properties of the filter panels (SpecFilters).                          *)
(***************************************************************************)
\* The selected values of the panel in the order the event declares its fields.
DeclaredOrderParts(msg) ==
    LET values == [f \in 1..Len(msg.filters) |->
                      ObjGet(currentFilters(msg), msg.filters[f].field, Undefined)]
    IN  SelectSeq(values, Truthy)

\* The selected values of the panel in the order of the keys of its selection map.
RECURSIVE KeyOrderParts(_)
KeyOrderParts(cur) ==
    IF cur = <<>> THEN <<>>
    ELSE IF Truthy(Head(cur).value) THEN <<Head(cur).value>> \o KeyOrderParts(Tail(cur))
    ELSE KeyOrderParts(Tail(cur))

SkipOrJoined(parts) == IF parts = <<>> THEN "skip" ELSE JoinSpace(parts)

FilterAnswer(text) ==
    [instruction |-> text, is_clarification |-> TRUE, value |-> text,
     clarification_type |-> "product_filter_refinement"]

Keys(o) == [i \in 1..Len(o) |-> o[i].key]

\* C7 as stated: a filter submission sends the selected values joined by single
\* spaces in the order the filter_options event declares the fields, or "skip".
C7_DeclaredFieldOrder ==
    [][\A i \in 1..MaxTimeline :
          (submitFilters(i) /\ sent' # sent) =>
              Last(sent').payload = FilterAnswer(SkipOrJoined(DeclaredOrderParts(messages[i])))]_vars

\* C7 as amended: a filter submission sends the selected values joined by single
\* spaces in the order of the keys of the panel's selection map, or "skip"; a
\* toggle puts a field that is not yet a key last and leaves the keys' order
\* alone otherwise, and Clear All empties the map.
C7_SelectionOrder ==
    [][/\ \A i \in 1..MaxTimeline :
            (submitFilters(i) /\ sent' # sent) =>
                Last(sent').payload =
                    FilterAnswer(SkipOrJoined(KeyOrderParts(currentFilters(messages[i]))))
       /\ \A i \in 1..MaxTimeline, f \in 1..2, o \in 1..2 :
            toggleFilterOption(i, f, o) =>
                LET before == Keys(currentFilters(messages[i]))
                    after == Keys(ObjGet(selectedFilters', filterId(messages[i]), EmptyObj))
                    field == messages[i].filters[f].field
                IN  after = IF \E j \in 1..Len(before) : before[j] = field
                            THEN before ELSE Append(before, field)
       /\ \A i \in 1..MaxTimeline :
            clearFilters(i) =>
                ObjGet(selectedFilters', filterId(messages[i]), EmptyObj) = <<>>]_vars

\* "color" was toggled before "size" and the submission sent "red M".
C7_Witness == \E k \in 1..Len(sent) : sent[k].payload = FilterAnswer("red M")

(***************************************************************************)
(* Properties of the connection under fairness of the timer (FairSpec).    *)
(***************************************************************************)
\* Every socket has fired its close event (or was never created).
AllSocketsClosed == \A s \in SockIds : sock[s] \in {"none", "closed"}

\* C10: after every close event connect() is called again, however many
\* attempts have failed.
C10_CloseLeadsToConnect == AllSocketsClosed ~> (\E s \in SockIds : sock[s] = "connecting")

\* Three attempts in a row closed without opening and a fourth is under way.
C10_Witness ==
    /\ Cardinality(Disconnects) = 3
    /\ Len(messages) = 3
    /\ \E s \in SockIds : sock[s] = "connecting"

(***************************************************************************)
(* Properties of the close handler (Spec).                                 *)
(***************************************************************************)
\* C11: every close event sets connected to false, sets the Loading Flag to
\* false, appends exactly one system entry "Disconnected from server.
\* Reconnecting..." at the tail of the timeline and schedules exactly one retry
\* of connect().
C11_CloseEffects ==
    [][\A s \in SockIds :
          (sock[s] # "closed" /\ sock'[s] = "closed") =>
              /\ connected' = FALSE
              /\ isLoading' = FALSE
              /\ Len(messages') = Len(messages) + 1
              /\ SubSeq(messages', 1, Len(messages)) = messages
              /\ IsDisconnectEntry(Last(messages'))
              /\ timers' = timers + 1]_vars

\* An open connection with a request in flight closed: the flags are down, the
\* notice is the last entry and one retry is pending.
C11_Witness ==
    /\ \E s \in SockIds : sock[s] = "closed"
    /\ Len(messages) = 3
    /\ messages[1].message = "Connected to server"
    /\ messages[2].type = "user"
    /\ IsDisconnectEntry(messages[3])
    /\ ~connected
    /\ ~isLoading
    /\ timers = 1

(***************************************************************************)
(* Properties of the loading flag and of the timeline (SpecTimeline).      *)
(***************************************************************************)
IsStatusWith(data, sub) ==
    data.type = "status" /\ "message" \in DOMAIN data /\ StrIncludes(data.message, sub)

IsFilterCompleted(data) ==
    data.type = "action_status" /\ Get(data, "action") = "filter"
        /\ Get(data, "status") = "completed"

\* The step is a transport error or a close of some socket.
ErrorOrCloseStep ==
    \E s \in SockIds : sock'[s] # sock[s] /\ sock'[s] \in {"errored", "closed"}

\* The Loading Flag falls only by a status event with "completed", a completed
\* filter event, a transport error or a close.
LoadingFallsOnlyByRule ==
    (isLoading /\ ~isLoading') =>
        \/ ErrorOrCloseStep
        \/ \E s \in SockIds, data \in TimelineFeed :
              /\ ws_onmessage(s, data)
              /\ IsStatusWith(data, "completed") \/ IsFilterCompleted(data)

CompletedLowersFlag ==
    \A s \in SockIds, data \in TimelineFeed :
        (ws_onmessage(s, data) /\ IsStatusWith(data, "completed")) => ~isLoading'

\* C12 as stated: after a status event whose message contains "Planning" the
\* Loading Flag is true; it stays true across the events that are not
\* status-completed, filter-completed, error or close; after a status event
\* whose message contains "completed" it is false.
C12_PlanningRaisesFlag ==
    [][/\ \A s \in SockIds, data \in TimelineFeed :
            (ws_onmessage(s, data) /\ IsStatusWith(data, "Planning")) => isLoading'
       /\ LoadingFallsOnlyByRule
       /\ CompletedLowersFlag]_vars

\* C12 as amended: after a status event whose message contains "Planning" and
\* does not contain "completed" the Loading Flag is true; it stays true across
\* the events that are not status-completed, filter-completed, error or close;
\* after a status event whose message contains "completed" it is false.
C12_PlanningHoldsUntilCompleted ==
    [][/\ \A s \in SockIds, data \in TimelineFeed :
            (/\ ws_onmessage(s, data)
             /\ IsStatusWith(data, "Planning")
             /\ ~IsStatusWith(data, "completed")) => isLoading'
       /\ LoadingFallsOnlyByRule
       /\ CompletedLowersFlag]_vars

\* "Planning..." raised the flag with no request sent, an unrelated event
\* followed, and "Task completed" lowered it on a connection that never dropped.
C12_Witness ==
    /\ Len(messages) = 4
    /\ messages[1].message = "Connected to server"
    /\ messages[2].type = "status" /\ messages[2].message = "Planning..."
    /\ messages[3].type \in {"error", "heartbeat", "action_status"}
    /\ messages[4].type = "status" /\ messages[4].message = "Task completed"
    /\ connected
    /\ ~isLoading

(***************************************************************************)
(* Properties of the cards of distinct steps (SpecReconcile) and of their  *)
(* replay (SpecReplay).                                                    *)
(***************************************************************************)
\* The positions of the timeline m that hold a card with a defined step.
SteppedCards(m) == {i \in 1..Len(m) : IsStatusCard(m[i]) /\ "step" \in DOMAIN m[i]}

\* The positions of m that hold the card of the given step and action.
CardsOfKey(m, step, action) ==
    {i \in SteppedCards(m) : m[i].step = step /\ Get(m[i], "action") = action}

\* The step processes a filter event that has no step.
SteplessFilterStep ==
    \E s \in SockIds, data \in ReconcileFeed :
        ws_onmessage(s, data) /\ IsFilterStatus(data) /\ "step" \notin DOMAIN data

\* C13 as stated: once an action_status event with a defined step has been
\* processed, the timeline holds one entry of its (step, action) whatever is
\* processed afterwards, so two events of one action and different steps leave
\* one entry each.
C13_StepCardsNeverCollapse ==
    [][\A i \in SteppedCards(messages) :
          Cardinality(CardsOfKey(messages', messages[i].step,
                                 Get(messages[i], "action"))) = 1]_vars

\* C13 as amended: the entry of a (step, action) stays, one per pair, whatever
\* is processed afterwards, except that a "filter" event without a step removes
\* the entries of action "filter" of every step.
C13_StepCardsStayUnlessFilterReset ==
    [][\A i \in SteppedCards(messages) :
          \/ Cardinality(CardsOfKey(messages', messages[i].step,
                                    Get(messages[i], "action"))) = 1
          \/ /\ Get(messages[i], "action") = "filter"
             /\ SteplessFilterStep
             /\ CardsOfKey(messages', messages[i].step, "filter") = {}]_vars

\* Steps 1 and 2 of one action were processed, one of them more than once, and
\* the timeline holds a card for each.
C13_Witness ==
    /\ received = 3
    /\ Len(messages) = 3
    /\ \E i, j \in SteppedCards(messages) :
          /\ Get(messages[i], "action") = Get(messages[j], "action")
          /\ messages[i].step = 1
          /\ messages[j].step = 2

\* The entry without the receipt time the client stamped on it.
StripTimestamp(msg) == [f \in DOMAIN msg \ {"timestamp"} |-> msg[f]]

Untimed(m) == [i \in 1..Len(m) |-> StripTimestamp(m[i])]

\* The positions of m that hold the event data as it was received.
EntriesOf(m, data) == {i \in 1..Len(m) : StripTimestamp(m[i]) = data}

\* C14: processing an action_status event with a defined step, or with action
\* "filter", right after the same event was processed leaves the timeline as it
\* was but for receipt timestamps: one entry of the event, at the tail.
C14_ReplayIsIdempotent ==
    [][\A s \in SockIds, data \in ReplayFeed :
          (/\ ws_onmessage(s, data)
           /\ IsKeyed(data) \/ IsFilterStatus(data)
           /\ messages # <<>>
           /\ StripTimestamp(Last(messages)) = data) =>
              /\ Untimed(messages') = Untimed(messages)
              /\ EntriesOf(messages', data) = {Len(messages')}]_vars

\* Two events of one (step, action) were processed, the second at a later time,
\* and one entry is left, stamped with the later time.
C14_Witness ==
    /\ received = 2
    /\ Len(messages) = 2
    /\ messages[2].type = "action_status"
    /\ "step" \in DOMAIN messages[2]
    /\ messages[1].timestamp = 1
    /\ messages[2].timestamp = 2

\* a is b with some entries left out, the others in the order they have in b.
RECURSIVE IsSubsequence(_, _)
IsSubsequence(a, b) ==
    IF a = <<>> THEN TRUE
    ELSE IF b = <<>> THEN FALSE
    ELSE IF Head(a) = Head(b) THEN IsSubsequence(Tail(a), Tail(b))
    ELSE IsSubsequence(a, Tail(b))

\* The positions of m whose entries the event data is to replace: the cards of
\* its step and action, or every filter card when it is a filter event without
\* a step.
ReplacedBy(m, data) ==
    IF "step" \in DOMAIN data
    THEN CardsOfKey(m, data.step, Get(data, "action"))
    ELSE {i \in 1..Len(m) : IsFilterCard(m[i])}

\* C15: when an action_status event is processed by keyed or singleton replace
\* it becomes the last entry of the timeline, and the entries that are not
\* removed keep their relative order.
C15_ReplaceMovesCardToTail ==
    [][\A s \in SockIds, data \in ReplayFeed :
          (ws_onmessage(s, data) /\ (IsKeyed(data) \/ IsFilterStatus(data))) =>
              LET front == SubSeq(messages', 1, Len(messages') - 1)
              IN  /\ StripTimestamp(Last(messages')) = data
                  /\ Last(messages').timestamp = now
                  /\ IsSubsequence(front, messages)
                  /\ Len(front) = Len(messages) - Cardinality(ReplacedBy(messages, data))
                  /\ ReplacedBy(front, data) = {}]_vars

\* Three events were processed, one of them replaced an earlier card, and the
\* card of the last one stands at the tail behind an entry that stayed.
C15_Witness ==
    /\ received = 3
    /\ Len(messages) = 3
    /\ messages[2].type = "status"
    /\ messages[3].type = "action_status"
    /\ "step" \in DOMAIN messages[3]
    /\ messages[2].timestamp = 1
    /\ messages[3].timestamp = 2

\* The entries of m that are not action_status cards, in their order.
NonCards(m) ==
    LET NotCard(msg) == msg.type # "action_status"
    IN  SelectSeq(m, NotCard)

IsPrefix(a, b) == Len(a) <= Len(b) /\ SubSeq(b, 1, Len(a)) = a

\* C16: an entry whose type is not action_status is never removed or altered
\* once it is in the timeline, and two such entries never change their order:
\* every step leaves these entries as they are and at most adds one behind them.
C16_NonCardsAppendOnly ==
    [][IsPrefix(NonCards(messages), NonCards(messages'))]_vars

\* An error entry that names the action "filter" stayed in place while a filter
\* card was replaced by a later one.
C16_Witness ==
    /\ received = 3
    /\ Len(messages) = 3
    /\ messages[2].type = "error" /\ Get(messages[2], "action") = "filter"
    /\ IsFilterCard(messages[3])

(***************************************************************************)
(* Properties of submissions while disconnected (Spec).                    *)
(***************************************************************************)
UserEntries(m) ==
    LET ByUser(msg) == msg.type = "user"
    IN  SelectSeq(m, ByUser)

\* The step is a submission: free text, a click on a clarification option or a
\* filter submit.
SubmissionStep ==
    \/ SendText
    \/ \E i \in 1..MaxTimeline, k \in 0..1 : selectClarificationOption(i, k)
    \/ \E i \in 1..MaxTimeline : submitFilters(i)

\* C17: a step taken while connected is false, a submission or any other, sends
\* nothing, appends no user entry and leaves the Loading Flag as it is; and
\* nothing is queued: frames are only ever sent, one at a time, by a submission
\* made while connected is true.
C17_DisconnectedSubmissionDropped ==
    [][/\ ~connected =>
            /\ sent' = sent
            /\ UserEntries(messages') = UserEntries(messages)
            /\ isLoading' = isLoading
       /\ sent' # sent =>
            /\ connected
            /\ SubmissionStep
            /\ Len(sent') = Len(sent) + 1
            /\ SubSeq(sent', 1, Len(sent)) = sent]_vars

\* The option "Amazon" was clicked while disconnected: it is marked, nothing was
\* sent for its question, and nothing was sent after the reconnect either.
C17_Witness ==
    /\ connected
    /\ Disconnects # {}
    /\ sent = <<>>
    /\ \E i \in Clarifications :
          /\ Truthy(messages[i].options[1].value)
          /\ optionId(messages[i], 0) \in selectedClarifications
          /\ i < Len(messages)
          /\ IsDisconnectEntry(messages[i + 1])

(***************************************************************************)
(* Properties of events of unknown type (SpecUnknown).                     *)
(***************************************************************************)
\* C18: an inbound event whose type is none of the known kinds is appended at
\* the tail of the timeline and leaves the Loading Flag, the Answered-Question
\* Set and the Filter Selection Map unchanged.
C18_UnknownEventAppended ==
    [][\A s \in SockIds, data \in UnknownFeed :
          (ws_onmessage(s, data) /\ data.type \notin KnownTypes) =>
              /\ Len(messages') = Len(messages) + 1
              /\ SubSeq(messages', 1, Len(messages)) = messages
              /\ StripTimestamp(Last(messages')) = data
              /\ isLoading' = isLoading
              /\ selectedClarifications' = selectedClarifications
              /\ selectedFilters' = selectedFilters]_vars

\* A question was answered, the request is in flight, and an event of unknown
\* type whose message reads "Task completed" was received and appended.
C18_Witness ==
    /\ Len(messages) >= 3
    /\ Last(messages).type = "note"
    /\ messages[Len(messages) - 1].type = "user"
    /\ selectedClarifications # {}
    /\ isLoading

(***************************************************************************)
(* Properties of the filter controls (SpecFilters).                        *)
(***************************************************************************)
Panels == {i \in 1..Len(messages) : messages[i].type = "filter_options"}

\* C19: a filter submission leaves the Answered-Question Set and the Filter
\* Selection Map unchanged, and the panel is never frozen: whatever was
\* submitted before, every option can still be toggled and the toggle changes
\* the panel's selection, and a submission made while connected sends one more
\* message.
C19_SubmitNeverFreezes ==
    /\ [](\A i \in Panels, f \in 1..2, o \in 1..2 :
             o <= Len(messages[i].filters[f].options) =>
                 ENABLED (/\ toggleFilterOption(i, f, o)
                          /\ selectedFilters' # selectedFilters))
    /\ [][/\ \A i \in 1..MaxTimeline :
               submitFilters(i) =>
                   /\ selectedClarifications' = selectedClarifications
                   /\ selectedFilters' = selectedFilters
                   /\ connected =>
                        /\ Len(sent') = Len(sent) + 1
                        /\ Last(sent').origin = filterId(messages[i])
          /\ \A i \in 1..MaxTimeline, f \in 1..2, o \in 1..2 :
               toggleFilterOption(i, f, o) =>
                   ObjGet(selectedFilters', filterId(messages[i]), EmptyObj)
                       # currentFilters(messages[i])]_vars

\* A panel was submitted, its selection was changed, and it was submitted
\* again: two messages with different texts were sent from it.
C19_Witness ==
    \E i \in Panels :
        \E k1, k2 \in SentFrom(filterId(messages[i])) :
            /\ k1 < k2
            /\ sent[k1].payload.instruction # "skip"
            /\ sent[k2].payload.instruction # "skip"
            /\ sent[k1].payload.instruction # sent[k2].payload.instruction

KeySet(o) == {o[i].key : i \in 1..Len(o)}

KeysDistinct(o) == \A a, b \in 1..Len(o) : o[a].key = o[b].key => a = b

\* C20: a toggle of an option clears the field's selection when the option is
\* the field's selection and sets the selection to the option otherwise, a field
\* holding one value at most; it leaves the other fields of the panel and the
\* selections of the other panels as they are, and sends nothing.
C20_ToggleSetsOrClearsOneField ==
    [][\A i \in 1..MaxTimeline, f \in 1..2, o \in 1..2 :
          toggleFilterOption(i, f, o) =>
              LET panelId == filterId(messages[i])
                  field == messages[i].filters[f].field
                  option == messages[i].filters[f].options[o]
                  before == ObjGet(selectedFilters, panelId, EmptyObj)
                  after == ObjGet(selectedFilters', panelId, EmptyObj)
              IN  /\ IF ObjGet(before, field, Undefined) = option
                     THEN ~Truthy(ObjGet(after, field, Undefined))
                     ELSE ObjGet(after, field, Undefined) = option
                  /\ KeysDistinct(after)
                  /\ KeySet(after) = KeySet(before) \cup {field}
                  /\ \A g \in KeySet(before) \ {field} :
                        ObjGet(after, g, Undefined) = ObjGet(before, g, Undefined)
                  /\ KeysDistinct(selectedFilters')
                  /\ KeySet(selectedFilters') = KeySet(selectedFilters) \cup {panelId}
                  /\ \A p \in KeySet(selectedFilters) \ {panelId} :
                        ObjGet(selectedFilters', p, EmptyObj) = ObjGet(selectedFilters, p, EmptyObj)
                  /\ sent' = sent
                  /\ messages' = messages]_vars

\* Two panels hold selections; in one of them a field was selected and cleared
\* again while another field keeps its value.
C20_Witness ==
    /\ Len(selectedFilters) = 2
    /\ \E p \in 1..2 :
          /\ \E a \in 1..Len(selectedFilters[p].value) : selectedFilters[p].value[a].value = ""
          /\ \E b \in 1..Len(selectedFilters[p].value) : Truthy(selectedFilters[p].value[b].value)
    /\ \E q \in 1..2 : \A c \in 1..Len(selectedFilters[q].value) :
          Truthy(selectedFilters[q].value[c].value)

\* C21: Clear All resets the panel's field-to-option map to empty, sends
\* nothing, appends nothing to the timeline and leaves the selections of the
\* other panels, the Answered-Question Set and the Loading Flag unchanged.
C21_ClearResetsOnePanel ==
    [][\A i \in 1..MaxTimeline :
          clearFilters(i) =>
              LET panelId == filterId(messages[i])
              IN  /\ currentFilters(messages[i]) # <<>>
                  /\ ObjGet(selectedFilters', panelId, EmptyObj) = <<>>
                  /\ KeysDistinct(selectedFilters')
                  /\ KeySet(selectedFilters') = KeySet(selectedFilters)
                  /\ \A p \in KeySet(selectedFilters) \ {panelId} :
                        ObjGet(selectedFilters', p, EmptyObj) = ObjGet(selectedFilters, p, EmptyObj)
                  /\ sent' = sent
                  /\ messages' = messages
                  /\ selectedClarifications' = selectedClarifications
                  /\ isLoading' = isLoading]_vars

\* One panel was cleared while a request was in flight and another panel keeps
\* its selection.
C21_Witness ==
    /\ Len(selectedFilters) = 2
    /\ isLoading
    /\ \E p, q \in 1..2 :
          /\ selectedFilters[p].value = <<>>
          /\ \E b \in 1..Len(selectedFilters[q].value) : Truthy(selectedFilters[q].value[b].value)

(***************************************************************************)
(* Properties of the answered set and of the open and error handlers       *)
(* (Spec).                                                                 *)
(***************************************************************************)
\* C22: the Answered-Question Set only grows: no step, be it an inbound event,
\* a user action, a disconnect or a reconnect, takes an identifier out of it.
C22_AnsweredSetOnlyGrows ==
    [][selectedClarifications \subseteq selectedClarifications']_vars

\* Two questions were answered, the connection has dropped and a new socket is
\* connecting: the four identifiers of the two answers are in the set.
C22_Witness ==
    /\ Cardinality(selectedClarifications) = 4
    /\ Cardinality(Clarifications) = 2
    /\ Disconnects # {}
    /\ \E s \in SockIds : sock[s] = "connecting"

IsConnectEntry(msg) == msg.type = "system" /\ msg.message = "Connected to server"

\* C23: every open of a socket sets connected to true and appends exactly one
\* system entry "Connected to server" at the tail of the timeline; the Loading
\* Flag, the Answered-Question Set and the Filter Selection Map are unchanged.
C23_OpenEffects ==
    [][\A s \in SockIds :
          (sock[s] # "open" /\ sock'[s] = "open") =>
              /\ connected' = TRUE
              /\ Len(messages') = Len(messages) + 1
              /\ SubSeq(messages', 1, Len(messages)) = messages
              /\ IsConnectEntry(Last(messages'))
              /\ Last(messages').timestamp = now
              /\ isLoading' = isLoading
              /\ selectedClarifications' = selectedClarifications
              /\ selectedFilters' = selectedFilters]_vars

\* The connection was opened a second time with a question already answered.
C23_Witness ==
    /\ connected
    /\ Len(messages) = 4
    /\ IsConnectEntry(messages[1])
    /\ IsConnectEntry(messages[4])
    /\ selectedClarifications # {}

\* C24: a transport error sets connected and the Loading Flag to false, leaves
\* the timeline unchanged and schedules no reconnect: no timer is set and no
\* socket is created by it.
C24_ErrorEffects ==
    [][\A s \in SockIds :
          (sock[s] # "errored" /\ sock'[s] = "errored") =>
              /\ connected' = FALSE
              /\ isLoading' = FALSE
              /\ messages' = messages
              /\ timers' = timers
              /\ wsRef' = wsRef
              /\ \A x \in SockIds \ {s} : sock'[x] = sock[x]]_vars

\* A transport error hit a connection with a request in flight: the flags are
\* down, the request is still the last entry and no retry is pending.
C24_Witness ==
    /\ \E s \in SockIds : sock[s] = "errored"
    /\ messages # <<>>
    /\ Last(messages).type = "user"
    /\ ~connected
    /\ ~isLoading
    /\ timers = 0

(***************************************************************************)
(* Properties of transmitted submissions (Spec).                           *)
(***************************************************************************)
\* C25: every step that transmits a user submission, be it a new instruction, a
\* clarification answer or a filter submission, sets the Loading Flag to true
\* in that same step.
C25_SendRaisesFlag ==
    [][sent' # sent => (isLoading' /\ Len(sent') = Len(sent) + 1)]_vars

\* A filter submission was transmitted on a connection where no "Planning"
\* status had raised the flag, and the flag is up.
C25_Witness ==
    /\ isLoading
    /\ Len(sent) = 1
    /\ \E i \in 1..Len(messages) :
          messages[i].type = "filter_options" /\ sent[1].origin = filterId(messages[i])
    /\ Last(messages).type = "user"
    /\ \A i \in 1..Len(messages) : messages[i].type # "status"

(***************************************************************************)
(* Properties of the loading flag under progress cards (SpecReconcile).    *)
(***************************************************************************)
\* C26: an action_status event with action "filter" and status "completed"
\* sets the Loading Flag to false, with a step or without; an action_status
\* event of any other action or status leaves the flag as it is.
C26_FilterCompletedLowersFlag ==
    [][\A s \in SockIds, data \in ReconcileFeed :
          (ws_onmessage(s, data) /\ data.type = "action_status") =>
              isLoading' = IF Get(data, "action") = "filter" /\ Get(data, "status") = "completed"
                           THEN FALSE ELSE isLoading]_vars

\* "Planning..." raised the flag, a click card left it up, and a completed
\* filter card that carries a step lowered it.
C26_Witness ==
    /\ Len(messages) = 4
    /\ received = 3
    /\ messages[2].type = "status"
    /\ messages[3].type = "action_status" /\ Get(messages[3], "action") = "click"
    /\ messages[4].type = "action_status" /\ Get(messages[4], "action") = "filter"
    /\ Get(messages[4], "status") = "completed"
    /\ "step" \in DOMAIN messages[4]
    /\ connected
    /\ ~isLoading

(***************************************************************************)
(* Properties of frames that do not parse (SpecFrames).                    *)
(***************************************************************************)
\* C27: a frame that fails to parse is dropped: the timeline, the Loading Flag,
\* the connection and the interaction state are unchanged by it, and the
\* connection goes on processing frames: on an open socket a well-formed frame
\* is appended, whatever was received before.
C27_UnparsableFrameDropped ==
    /\ [][\A s \in SockIds, text \in FrameFeed :
            (ws_onmessageFrame(s, text) /\ ParseThrows(text)) =>
                UNCHANGED <<messages, isLoading, connected, sock, wsRef, timers, sent,
                            selectedClarifications, selectedFilters, input>>]_vars
    /\ [](\A s \in SockIds :
            (sock[s] = "open" /\ received < MaxReceived /\ Len(messages) < MaxTimeline) =>
                ENABLED (/\ ws_onmessageFrame(s, HeartbeatFrame)
                         /\ Len(messages') = Len(messages) + 1))

\* Three frames arrived on one connection and one of them was dropped:
\* "Planning..." raised the flag and the heartbeat was appended.
C27_Witness ==
    /\ received = 3
    /\ Len(messages) = 3
    /\ IsConnectEntry(messages[1])
    /\ messages[2].type = "status"
    /\ messages[3].type = "heartbeat"
    /\ connected
    /\ isLoading

(***************************************************************************)
(* Properties of the rendering of the timeline (SpecUnknown).              *)
(***************************************************************************)
\* C28: every entry of the timeline is visible: the timeline renders an element
\* for it, a fallback element when its type is unknown, never nothing.
C28_EveryEntryRendered ==
    \A i \in 1..Len(messages) : RenderEntry(messages[i]) # "null"

(***************************************************************************)
(* Properties of the outbound payloads (Spec).                             *)
(***************************************************************************)
\* The frame is a clarification answer that carries the given value.
IsAnswerOf(frame, value) ==
    /\ {"instruction", "is_clarification", "value"} \subseteq DOMAIN frame.payload
    /\ frame.payload.is_clarification = TRUE
    /\ frame.payload.value = value
    /\ frame.payload.instruction = value

\* C29: every message sent by a click on a clarification option or by a filter
\* submission carries is_clarification = true and value = instruction = the
\* chosen value, whatever the value, the empty string included; every message
\* sent from the free-text input carries instruction alone; so the content of
\* the input is never sent by an option click.
C29_PayloadFollowsOrigin ==
    [][sent' # sent =>
          /\ \A i \in 1..MaxTimeline, k \in 0..1 :
                selectClarificationOption(i, k) =>
                    IsAnswerOf(Last(sent'), messages[i].options[k + 1].value)
          /\ \A i \in 1..MaxTimeline :
                submitFilters(i) =>
                    IsAnswerOf(Last(sent'), filterString(currentFilters(messages[i])))
          /\ SendText => DOMAIN Last(sent').payload = {"instruction"}]_vars

(***************************************************************************)
(* Properties of the choice of the merge strategy (SpecReconcile).         *)
(***************************************************************************)
\* The positions of m that the one strategy chosen for data removes: with a
\* defined step the cards of its (step, action), "filter" or not; without a
\* step and with action "filter" every filter card; nothing otherwise.
RemovedBy(m, data) ==
    IF data.type # "action_status" THEN {}
    ELSE IF "step" \in DOMAIN data THEN CardsOfKey(m, data.step, Get(data, "action"))
    ELSE IF Get(data, "action") = "filter" THEN {i \in 1..Len(m) : IsFilterCard(m[i])}
    ELSE {}

\* m without the entries at the positions R.
WithoutPositions(m, R) ==
    LET Stays(i) == i \notin R
        idx == SelectSeq([i \in 1..Len(m) |-> i], Stays)
    IN  [j \in 1..Len(idx) |-> m[idx[j]]]

\* C30: one merge strategy is applied per inbound event, in priority order: a
\* "filter" event with a defined step removes the entries of its (step,
\* "filter") only; a "filter" event without a step removes every filter entry,
\* with or without a step; in each case the event is then appended.
C30_OneStrategyInPriorityOrder ==
    [][\A s \in SockIds, data \in ReconcileFeed :
          ws_onmessage(s, data) =>
              messages' = Append(WithoutPositions(messages, RemovedBy(messages, data)),
                                 WithTimestamp(data, now))]_vars

\* Filter cards of steps 1 and 2 stand side by side after the second was
\* received, and a click card of step 1 stands with them.
C30_Witness ==
    /\ received = 3
    /\ Len(messages) = 4
    /\ CardsOfKey(messages, 1, "filter") # {}
    /\ CardsOfKey(messages, 2, "filter") # {}
    /\ CardsOfKey(messages, 1, "click") # {}

(***************************************************************************)
(* Properties of the append branch (SpecReconcile).                        *)
(***************************************************************************)
IsUnkeyedCard(data) ==
    /\ data.type = "action_status"
    /\ "step" \notin DOMAIN data
    /\ Get(data, "action") # "filter"

\* C31: an action_status event with no step and an action other than "filter"
\* is appended and removes nothing, so that n such events, identical or not,
\* make n entries.
C31_UnkeyedCardAppended ==
    [][\A s \in SockIds, data \in ReconcileFeed :
          (ws_onmessage(s, data) /\ IsUnkeyedCard(data)) =>
              /\ Len(messages') = Len(messages) + 1
              /\ SubSeq(messages', 1, Len(messages)) = messages
              /\ StripTimestamp(Last(messages')) = data]_vars

\* The same step-less click event was received three times and stands three
\* times in the timeline.
C31_Witness ==
    /\ received = 3
    /\ Len(messages) = 4
    /\ IsUnkeyedCard(messages[2])
    /\ messages[3] = messages[2]
    /\ messages[4] = messages[2]

(***************************************************************************)
(* Properties of informational events (SpecInformational).                 *)
(***************************************************************************)
InformationalTypes == {"error", "blocked", "clarification", "plan", "filter_options"}

\* C32: an inbound error, blocked, clarification, plan or filter_options event
\* is appended and leaves the Loading Flag unchanged; so a flag that is true
\* stays true after such events until a status event with "completed", a
\* transport error or a close.
C32_InformationalKeepsFlag ==
    [][/\ \A s \in SockIds, data \in InformationalFeed :
            (ws_onmessage(s, data) /\ data.type \in InformationalTypes) =>
                /\ isLoading' = isLoading
                /\ Len(messages') = Len(messages) + 1
                /\ SubSeq(messages', 1, Len(messages)) = messages
                /\ StripTimestamp(Last(messages')) = data
       /\ (isLoading /\ ~isLoading') =>
            \/ ErrorOrCloseStep
            \/ \E s \in SockIds, data \in StatusEvents :
                  ws_onmessage(s, data) /\ IsStatusWith(data, "completed")]_vars

\* "Planning..." raised the flag, a blocked event and an error event followed,
\* no "completed" status came, and the flag is still up.
C32_Witness ==
    /\ Len(messages) = 4
    /\ messages[2].type = "status" /\ messages[2].message = "Planning..."
    /\ messages[3].type = "blocked"
    /\ messages[4].type = "error"
    /\ connected
    /\ isLoading

\* C33: the loading rules run in a fixed order within one event and the last
\* writer wins: a status event whose message contains both "Planning" and
\* "completed" leaves the Loading Flag false, and a status event whose message
\* contains neither leaves it unchanged.
C33_LastLoadingRuleWins ==
    [][\A s \in SockIds, data \in TimelineFeed :
          (ws_onmessage(s, data) /\ data.type = "status" /\ "message" \in DOMAIN data) =>
              /\ (StrIncludes(data.message, "Planning") /\ StrIncludes(data.message, "completed"))
                    => ~isLoading'
              /\ (~StrIncludes(data.message, "Planning") /\ ~StrIncludes(data.message, "completed"))
                    => isLoading' = isLoading]_vars

\* "Planning..." raised the flag, "Working" kept it, and "Planning completed",
\* which matches both rules, has lowered it.
C33_Witness ==
    /\ Len(messages) = 4
    /\ messages[2].type = "status" /\ messages[2].message = "Planning..."
    /\ messages[3].type = "status" /\ messages[3].message = "Working"
    /\ messages[4].type = "status" /\ messages[4].message = "Planning completed"
    /\ connected
    /\ ~isLoading

(***************************************************************************)
(* Properties of the reconnect cycle (Spec).                               *)
(***************************************************************************)
UnclosedSockets == {s \in SockIds : sock[s] \in {"connecting", "open", "closing", "errored"}}

\* C34: while the cleanup has not run, exactly one of these holds: a socket
\* created by connect() has not closed yet, or a reconnect timer is pending;
\* never neither and never both.
C34_SocketXorTimer ==
    ~tornDown => ((UnclosedSockets # {}) <=> (timers = 0))

\* The first socket closed, its timer elapsed, and the second socket has
\* reported an error but has not closed: a socket, and no timer.
C34_Witness ==
    /\ ~tornDown
    /\ sock[wsRef] = "errored"
    /\ UnclosedSockets = {wsRef}
    /\ timers = 0
    /\ Cardinality(Disconnects) = 1

(***************************************************************************)
(* Properties of the answers to clarification questions (Spec).            *)
(***************************************************************************)
\* C35: a clarification question is marked answered only if its answer was
\* transmitted: a click while connected is false, or on an option with an
\* empty value, does not add the question to the answered set.
C35_AnsweredOnlyIfTransmitted ==
    \A i \in Clarifications :
        clarificationId(messages[i]) \in selectedClarifications =>
            SentFrom(clarificationId(messages[i])) # {}

(***************************************************************************)
(* Properties of the active socket (SpecRemount).                          *)
(***************************************************************************)
\* C36: connected being true implies that the socket held in wsRef is open, so
\* that send is only ever invoked on the most recently created socket while it
\* is open, in every interleaving of open, error, close, timer and remount.
C36_ConnectedMeansOpen == connected => sock[wsRef] = "open"

(***************************************************************************)
(* Properties of the identities of interactive entries (Spec).             *)
(***************************************************************************)
\* C37: distinct clarification entries have distinct identities and distinct
\* filter_options entries have distinct panel identities, so that an answer or
\* a selection made on one entry never shows on another, also when two events
\* with the same question arrive with the same receipt timestamp.
C37_DistinctEntriesDistinctIds ==
    /\ \A i, j \in Clarifications :
          i # j => clarificationId(messages[i]) # clarificationId(messages[j])
    /\ \A i, j \in Panels :
          i # j => filterId(messages[i]) # filterId(messages[j])

(***************************************************************************)
(* Properties of the pairing of sends and user entries (Spec).             *)
(***************************************************************************)
\* C38: the user entries of the timeline are, in order, the texts of the
\* messages handed to the socket: as many user entries as sends, the k-th user
\* entry carrying the instruction of the k-th send, user entries being created
\* in no other way.
C38_UserEntriesMatchSends ==
    LET users == UserEntries(messages)
    IN  /\ Len(users) = Len(sent)
        /\ \A k \in 1..Len(sent) : users[k].message = sent[k].payload.instruction

SentTexts == [k \in 1..Len(sent) |-> sent[k].payload.instruction]

UserTexts == [k \in 1..Len(UserEntries(messages)) |-> UserEntries(messages)[k].message]

\* C38: every message handed to the socket is paired with one user entry
\* appended at the tail in the same step and carrying the transmitted text; the
\* only other user entries are inbound events of type 'user', appended on
\* receipt.  So the transmitted texts are, in order, among the texts of the
\* user entries, and there are at least as many user entries as sends.
C38_SendsPairedWithUserEntries ==
    /\ [](IsSubsequence(SentTexts, UserTexts))
    /\ [][/\ sent' # sent =>
               /\ Len(sent') = Len(sent) + 1
               /\ SubSeq(sent', 1, Len(sent)) = sent
               /\ Len(messages') = Len(messages) + 1
               /\ SubSeq(messages', 1, Len(messages)) = messages
               /\ Last(messages').type = "user"
               /\ Last(messages').message = Last(sent').payload.instruction
          /\ UserEntries(messages') # UserEntries(messages) =>
               \/ sent' # sent
               \/ \E s \in SockIds, data \in UserEvents : ws_onmessage(s, data)]_vars

\* The backend sent an event of type 'user', then free text was sent: two user
\* entries and one send, the second entry paired with it.
C38_Witness ==
    /\ Len(sent) = 1
    /\ Len(messages) = 3
    /\ messages[2].type = "user"
    /\ messages[3].type = "user"
    /\ received = 1
    /\ isLoading

(***************************************************************************)
(* Properties of the session state across reconnects (Spec).               *)
(***************************************************************************)
\* C39: the open, error, close and timer handlers never remove or reorder
\* timeline entries and never change the Answered-Question Set or the Filter
\* Selection Map, so a clarification answered before a disconnect is still
\* frozen after it.
C39_ReconnectKeepsSession ==
    [][(sock' # sock \/ timers' # timers) =>
          /\ IsPrefix(messages, messages')
          /\ selectedClarifications' = selectedClarifications
          /\ selectedFilters' = selectedFilters]_vars

\* A question was answered, the connection closed, and the timer has started
\* the next socket: the entries are all there and the question is still marked.
C39_Witness ==
    /\ Len(messages) = 4
    /\ messages[2].type = "clarification"
    /\ messages[3].type = "user"
    /\ IsDisconnectEntry(messages[4])
    /\ clarificationId(messages[2]) \in selectedClarifications
    /\ SentFrom(clarificationId(messages[2])) # {}
    /\ timers = 0
    /\ sock[wsRef] = "connecting"

(***************************************************************************)
(* Properties of failed connection attempts (FairSpec).                    *)
(***************************************************************************)
\* C40: a connection attempt that closes without having opened appends a
\* "Disconnected from server. Reconnecting..." entry like any other close: the
\* number of disconnect entries grows by one with every close event, whether
\* connected was true or not, and changes in no other step, so an unreachable
\* backend adds one system entry per retry.
C40_OneDisconnectEntryPerClose ==
    [][/\ \A s \in SockIds :
            (sock[s] # "closed" /\ sock'[s] = "closed") =>
                /\ Len(messages') = Len(messages) + 1
                /\ SubSeq(messages', 1, Len(messages)) = messages
                /\ IsDisconnectEntry(Last(messages'))
                /\ Cardinality(Disconnects') = Cardinality(Disconnects) + 1
       /\ Cardinality(Disconnects') # Cardinality(Disconnects) =>
            \E s \in SockIds : sock[s] # "closed" /\ sock'[s] = "closed"]_vars

\* Four attempts closed and none ever opened: the timeline is four disconnect
\* entries and nothing else, and the next retry is pending.
C40_Witness ==
    /\ Len(messages) = 4
    /\ \A i \in 1..Len(messages) : IsDisconnectEntry(messages[i])
    /\ ~connected
    /\ timers = 1

====
